---- MODULE Spec2Model ----
(***************************************************************************)
(* ASIS Research Platform API (src/main.py): registration and login,       *)
(* bearer tokens, Stripe-backed subscription creation, the Stripe webhook  *)
(* and the admin statistics endpoint, as a state machine.                  *)
(*                                                                         *)
(* Every HTTP request runs in a slot p \in Procs.  A handler is cut at its *)
(* awaits on the database and at its calls to the payment processor: each  *)
(* action below is one such segment, so handlers of concurrent requests    *)
(* interleave exactly where the code can be suspended.  The state is the   *)
(* one after startup_event ran with DATABASE_URL set: db_pool is a pool    *)
(* and the three tables exist and are empty.                               *)
(*                                                                         *)
(* Strings that the code inspects (emails) are sequences of tokens, with   *)
(* "." and "@" as tokens of their own; times are whole hours.              *)
(***************************************************************************)
EXTENDS Integers, Sequences, FiniteSets, TLC

\* ------------------------------------------------------------------ bounds
NumProcs == 2          \* request slots that can be in flight together
MaxRequests == 3       \* requests accepted in one behaviour
MaxTime == 32          \* the clock stops here (hours)
TickHours == 16        \* one step of the clock (hours)

Procs == 1..NumProcs

\* ------------------------------------------------------- program constants
JWT_SECRET == "your-secret-key"
TOKEN_TTL_HOURS == 24
ACADEMIC_DISCOUNT == 50
None == "<None>"

\* ------------------------------------------------------------ string model
\* str.endswith
EndsWith(s, suf) ==
    /\ Len(suf) <= Len(s)
    /\ SubSeq(s, Len(s) - Len(suf) + 1, Len(s)) = suf

\* the `in` operator on two strings
Contains(s, sub) ==
    \E i \in 1..(Len(s) + 1) :
        /\ i + Len(sub) - 1 <= Len(s)
        /\ SubSeq(s, i, i + Len(sub) - 1) = sub

\* the part of an address after its "@"
Domain(email) ==
    LET at == CHOOSE i \in 1..Len(email) : email[i] = "@"
    IN  SubSeq(email, at + 1, Len(email))

\* the addresses requests are made with
AliceEdu   == <<"alice", "@", "university", ".", "edu">>
BobAcUk    == <<"bob", "@", "ox", ".", "ac", ".", "uk">>
CarolPlain == <<"carol", "@", "gmail", ".", "com">>
DaveLocal  == <<"d", ".", "ac", ".", "e", "@", "gmail", ".", "com">>

CountryCodes == {"uk", "jp", "nz"}

\* hashlib.sha256(password.encode()).hexdigest(): one-way, unsalted
sha256_hexdigest(password) == <<"sha256", password>>

\* ------------------------------------------------------------------- uuids
UuidSpace == 0..(MaxRequests + 1)
GhostUuid == [uuid |-> 0]              \* a uuid no user record carries
str(u) == ToString(u.uuid)
UUID(s) == [uuid |-> CHOOSE n \in UuidSpace : ToString(n) = s]

\* ----------------------------------------------------------- token service
\* jwt.encode(to_encode, JWT_SECRET, algorithm="HS256"): the claims, bound to
\* the key that signed them
jwt_encode(claims, key) == [sub |-> claims.sub, exp |-> claims.exp, key |-> key]

\* create_access_token(data, expires_delta); utcnow is datetime.utcnow().
\* expires_delta = 0 stands for both None and timedelta(0): `if expires_delta`
\* is false for either.
create_access_token(data, expires_delta, utcnow) ==
    LET expire == IF expires_delta # 0 THEN utcnow + expires_delta
                  ELSE utcnow + TOKEN_TTL_HOURS
    IN  jwt_encode([sub |-> data.sub, exp |-> expire], JWT_SECRET)

\* jwt.decode with options={"verify_exp": False}
jwt_decode_NoExpiry(token, key, utcnow) ==
    IF token.key # key THEN [ok |-> FALSE, error |-> "InvalidSignatureError", sub |-> None]
    ELSE [ok |-> TRUE, error |-> None, sub |-> token.sub]

\* jwt.decode(token, key, algorithms=["HS256"]): PyJWTError on a signature
\* made with another key and on an expiry that is not in the future
jwt_decode(token, key, utcnow) ==
    IF token.key # key THEN [ok |-> FALSE, error |-> "InvalidSignatureError", sub |-> None]
    ELSE IF token.exp <= utcnow THEN [ok |-> FALSE, error |-> "ExpiredSignatureError", sub |-> None]
    ELSE [ok |-> TRUE, error |-> None, sub |-> token.sub]

\* verify_token(credentials): the subject, or HTTP 401
verify_token(token, utcnow) ==
    LET payload == jwt_decode(token, JWT_SECRET, utcnow)
    IN  IF ~payload.ok THEN [status |-> 401, user_id |-> None]
        ELSE IF payload.sub = None THEN [status |-> 401, user_id |-> None]
        ELSE [status |-> 200, user_id |-> payload.sub]

\* bearer tokens a client can present without the system having issued them:
\* one signed with another secret, one well signed with no "sub" claim, one
\* well signed for a user id that has no record
ForeignTokens ==
    { [sub |-> str([uuid |-> 1]), exp |-> MaxTime + TOKEN_TTL_HOURS, key |-> "not-the-secret"],
      [sub |-> None, exp |-> MaxTime + TOKEN_TTL_HOURS, key |-> JWT_SECRET],
      [sub |-> str(GhostUuid), exp |-> MaxTime + TOKEN_TTL_HOURS, key |-> JWT_SECRET] }

\* --------------------------------------------------------------- the state
VARIABLES
    users,                \* table users
    subscriptions,        \* table subscriptions
    stripe_customers,     \* customers the payment processor holds
    stripe_subscriptions, \* subscriptions the payment processor holds
    now,                  \* the clock, in hours
    issued,               \* tokens handed out in responses
    registered,           \* (email, password, user_id) of every successful register
    nreq,                 \* requests accepted so far
    pc,                   \* pc[p]: where the handler of slot p stands
    req,                  \* req[p]: the request of slot p
    loc,                  \* loc[p]: the handler's local variables
    resp,                 \* resp[p]: the response, status 0 while pending
    calls                 \* calls[p]: database and processor calls made so far

vars == <<users, subscriptions, stripe_customers, stripe_subscriptions, now,
          issued, registered, nreq, pc, req, loc, resp, calls>>
db == <<users, subscriptions>>
stripe == <<stripe_customers, stripe_subscriptions>>

NoRequest == [op |-> "none"]
NoLocals == [empty |-> TRUE]
Pending == [status |-> 0]

Init ==
    /\ users = {}
    /\ subscriptions = {}
    /\ stripe_customers = {}
    /\ stripe_subscriptions = {}
    /\ now = 0
    /\ issued = {}
    /\ registered = {}
    /\ nreq = 0
    /\ pc = [p \in Procs |-> "idle"]
    /\ req = [p \in Procs |-> NoRequest]
    /\ loc = [p \in Procs |-> NoLocals]
    /\ resp = [p \in Procs |-> Pending]
    /\ calls = [p \in Procs |-> <<>>]

\* Slot p takes a new request (its previous response has been sent) and the
\* handler runs up to its first await: there it stands at `at` with the locals
\* `locals`, unless it has already answered `response` (status # 0).  A new
\* request takes the lowest free slot: slots are interchangeable.  The slot of
\* a handler that died is free again once the server is back.
Free(p) == pc[p] \in {"idle", "done", "crashed"}
Accept(p, request, at, locals, response) ==
    /\ Free(p)
    /\ \A q \in Procs : q < p => ~Free(q)
    /\ nreq < MaxRequests
    /\ nreq' = nreq + 1
    /\ pc' = [pc EXCEPT ![p] = IF response.status = 0 THEN at ELSE "done"]
    /\ req' = [req EXCEPT ![p] = request]
    /\ loc' = [loc EXCEPT ![p] = locals]
    /\ resp' = [resp EXCEPT ![p] = response]
    /\ calls' = [calls EXCEPT ![p] = <<>>]

\* the handler of slot p returns or raises: the response is r
Respond(p, r) ==
    /\ pc' = [pc EXCEPT ![p] = "done"]
    /\ resp' = [resp EXCEPT ![p] = r]

HTTPException(status_code, detail) == [status |-> status_code, detail |-> detail]

Call(p, what) == calls' = [calls EXCEPT ![p] = Append(@, what)]

\* gen_random_uuid() for users.user_id: a value no row carries
NewUserId == [uuid |-> Cardinality(users) + 1]

\* ------------------------------------------------------- POST /auth/register
RegisterForms ==
    { [email |-> AliceEdu,   password |-> "p@ss1",   institution |-> "Example University", role |-> "researcher"],
      [email |-> AliceEdu,   password |-> "hunter2", institution |-> "Example University", role |-> "admin"],
      [email |-> BobAcUk,    password |-> "p@ss1",   institution |-> "Oxford", role |-> "admin"],
      [email |-> CarolPlain, password |-> "hunter2", institution |-> "Acme", role |-> "researcher"],
      [email |-> DaveLocal,  password |-> "p@ss1",   institution |-> "Acme", role |-> "researcher"] }

RegisterRequest(p, user_data) ==
    /\ Accept(p, [op |-> "register"] @@ user_data, "register_check", NoLocals, Pending)
    /\ UNCHANGED <<db, stripe, now, issued, registered>>

\* is_academic = email.endswith('.edu') or '.ac.' in email
is_academic_email(email) ==
    EndsWith(email, <<".", "edu">>) \/ Contains(email, <<".", "ac", ".">>)

\* RegisterCheck without its `if existing_user` branch
RegisterCheck_NoLookup(p) ==
    /\ pc[p] = "register_check"
    /\ Call(p, "SELECT users BY email")
    /\ pc' = [pc EXCEPT ![p] = "register_insert"]
    /\ loc' = [loc EXCEPT ![p] =
         [is_academic |-> is_academic_email(req[p].email),
          discount |-> IF is_academic_email(req[p].email) THEN ACADEMIC_DISCOUNT ELSE 0,
          password_hash |-> sha256_hexdigest(req[p].password)]]
    /\ UNCHANGED <<db, stripe, now, issued, registered, nreq, req, resp>>

\* SELECT user_id FROM users WHERE email = $1, and what follows up to the INSERT
RegisterCheck(p) ==
    /\ pc[p] = "register_check"
    /\ Call(p, "SELECT users BY email")
    /\ LET existing_user == {u \in users : u.email = req[p].email}
           is_academic == is_academic_email(req[p].email)
       IN  IF existing_user # {}
           THEN /\ Respond(p, HTTPException(400, "User already exists"))
                /\ UNCHANGED loc
           ELSE /\ pc' = [pc EXCEPT ![p] = "register_insert"]
                /\ loc' = [loc EXCEPT ![p] =
                     [is_academic |-> is_academic,
                      discount |-> IF is_academic THEN ACADEMIC_DISCOUNT ELSE 0,
                      password_hash |-> sha256_hexdigest(req[p].password)]]
                /\ UNCHANGED resp
    /\ UNCHANGED <<db, stripe, now, issued, registered, nreq, req>>

\* the row INSERT INTO users (...) VALUES ($1..$6) makes, defaults filled in
NewUserRow(user_id, user_data, locals, at) ==
    [user_id |-> user_id,
     email |-> user_data.email,
     password_hash |-> locals.password_hash,
     institution |-> user_data.institution,
     role |-> user_data.role,
     tier |-> "academic",
     subscription_status |-> "active",
     is_academic |-> locals.is_academic,
     discount_percentage |-> locals.discount,
     created_date |-> at,
     last_active |-> at]

\* the users table without the UNIQUE constraint on email
UniqueEmailViolated_NoConstraint(email) == FALSE

\* email VARCHAR UNIQUE NOT NULL: the INSERT raises when the email is taken
UniqueEmailViolated(email) == \E u \in users : u.email = email

\* INSERT INTO users ... RETURNING user_id, the token and the response
RegisterInsert(p) ==
    /\ pc[p] = "register_insert"
    /\ Call(p, "INSERT users")
    /\ IF UniqueEmailViolated(req[p].email)
       THEN /\ Respond(p, HTTPException(500, "UniqueViolationError"))
            /\ UNCHANGED <<users, issued, registered>>
       ELSE LET user_id == NewUserId
                access_token == create_access_token([sub |-> str(user_id)], 0, now)
            IN  /\ users' = users \cup {NewUserRow(user_id, req[p], loc[p], now)}
                /\ issued' = issued \cup {access_token}
                /\ registered' = registered \cup
                     {[email |-> req[p].email, password |-> req[p].password,
                       user_id |-> str(user_id)]}
                /\ Respond(p, [status |-> 200,
                               user_id |-> str(user_id),
                               access_token |-> access_token,
                               token_type |-> "bearer",
                               is_academic |-> loc[p].is_academic,
                               discount_percentage |-> loc[p].discount])
    /\ UNCHANGED <<subscriptions, stripe, now, nreq, req, loc>>

\* ---------------------------------------------------------- POST /auth/login
Credentials ==
    {[email |-> f.email, password |-> f.password] : f \in RegisterForms}

LoginRequest(p, c) ==
    /\ Accept(p, [op |-> "login"] @@ c, "login_select", NoLocals, Pending)
    /\ UNCHANGED <<db, stripe, now, issued, registered>>

\* SELECT user_id, email, tier, subscription_status FROM users
\*   WHERE email = $1 AND password_hash = $2
LoginSelect(p) ==
    /\ pc[p] = "login_select"
    /\ Call(p, "SELECT users BY email, password_hash")
    /\ LET password_hash == sha256_hexdigest(req[p].password)
           found == {u \in users : u.email = req[p].email /\ u.password_hash = password_hash}
       IN  IF found = {}
           THEN /\ Respond(p, HTTPException(401, "Invalid credentials"))
                /\ UNCHANGED loc
           ELSE \E user \in found :
                /\ pc' = [pc EXCEPT ![p] = "login_update"]
                /\ loc' = [loc EXCEPT ![p] =
                     [user |-> [user_id |-> user.user_id, email |-> user.email,
                                tier |-> user.tier,
                                subscription_status |-> user.subscription_status]]]
                /\ UNCHANGED resp
    /\ UNCHANGED <<db, stripe, now, issued, registered, nreq, req>>

\* UPDATE users SET last_active = NOW() WHERE user_id = $1, the token and the
\* response
LoginUpdate(p) ==
    /\ pc[p] = "login_update"
    /\ Call(p, "UPDATE users.last_active")
    /\ LET user == loc[p].user
           access_token == create_access_token([sub |-> str(user.user_id)], 0, now)
       IN  /\ users' = {IF u.user_id = user.user_id
                        THEN [u EXCEPT !.last_active = now] ELSE u : u \in users}
           /\ issued' = issued \cup {access_token}
           /\ Respond(p, [status |-> 200,
                          access_token |-> access_token,
                          token_type |-> "bearer",
                          user_id |-> str(user.user_id),
                          tier |-> user.tier,
                          subscription_status |-> user.subscription_status])
    /\ UNCHANGED <<subscriptions, stripe, now, registered, nreq, req, loc>>

\* ------------------------------------------------- POST /subscriptions/create
\* pricing, in cents
pricing ==
    [tier \in {"academic", "professional", "enterprise"} |->
        CASE tier = "academic"     -> [monthly |-> 4950,  annual |-> 49500]
          [] tier = "professional" -> [monthly |-> 29900, annual |-> 299000]
          [] tier = "enterprise"   -> [monthly |-> 99900, annual |-> 999000]]

\* datetime.fromtimestamp(ts) and datetime.isoformat()
fromtimestamp(ts) == [datetime |-> ts]
isoformat(dt) == <<"iso", dt.datetime>>

\* billing_period.replace('ly', '')
interval_of(billing_period) ==
    CASE billing_period = "monthly" -> "month"
      [] billing_period = "weekly"  -> "week"
      [] OTHER -> billing_period

\* the length of a billing interval at the processor, in hours
PeriodHours(interval) == IF interval = "month" THEN 720 ELSE 8760

SubscriptionForms ==
    { [tier |-> "professional", billing_period |-> "monthly", payment_method_id |-> "pm_card"],
      [tier |-> "enterprise",   billing_period |-> "annual",  payment_method_id |-> "pm_card"],
      [tier |-> "platinum",     billing_period |-> "monthly", payment_method_id |-> "pm_card"],
      [tier |-> "professional", billing_period |-> "weekly",  payment_method_id |-> "pm_card"] }

\* what the handler does before its first await: Depends(verify_token), the
\* tier check and the price lookup
SubscribeEntry(credentials, subscription_data, utcnow) ==
    LET auth == verify_token(credentials, utcnow)
    IN  IF auth.status # 200
        THEN HTTPException(401, "Invalid authentication credentials")
        ELSE IF subscription_data.tier \notin DOMAIN pricing
        THEN HTTPException(400, "Invalid tier")
        ELSE IF subscription_data.billing_period \notin DOMAIN pricing[subscription_data.tier]
        THEN HTTPException(500, "KeyError")
        ELSE [status |-> 0, user_id |-> auth.user_id,
              amount |-> pricing[subscription_data.tier][subscription_data.billing_period]]

SubscribeRequest(p, credentials, subscription_data) ==
    LET entry == SubscribeEntry(credentials, subscription_data, now)
    IN  /\ Accept(p, [op |-> "subscribe", credentials |-> credentials] @@ subscription_data,
                  "subscribe_select",
                  IF entry.status = 0
                  THEN [user_id |-> entry.user_id, amount |-> entry.amount] ELSE NoLocals,
                  IF entry.status = 0 THEN Pending ELSE entry)
        /\ UNCHANGED <<db, stripe, now, issued, registered>>

\* SELECT email, is_academic FROM users WHERE user_id = $1
SubscribeSelect(p) ==
    /\ pc[p] = "subscribe_select"
    /\ Call(p, "SELECT users BY user_id")
    /\ LET found == {u \in users : u.user_id = UUID(loc[p].user_id)}
       IN  IF found = {}
           THEN /\ Respond(p, HTTPException(404, "User not found"))
                /\ UNCHANGED loc
           ELSE \E user \in found :
                /\ pc' = [pc EXCEPT ![p] = "subscribe_customer"]
                /\ loc' = [loc EXCEPT ![p] =
                     [user_id |-> loc[p].user_id, amount |-> loc[p].amount,
                      user |-> [email |-> user.email, is_academic |-> user.is_academic]]]
                /\ UNCHANGED resp
    /\ UNCHANGED <<db, stripe, now, issued, registered, nreq, req>>

StripeError == "Your card was declined."

\* stripe.Customer.create(...): the processor makes a customer, or raises
SubscribeCustomer(p) ==
    /\ pc[p] = "subscribe_customer"
    /\ Call(p, "stripe.Customer.create")
    /\ \/ LET customer == [id |-> Cardinality(stripe_customers) + 1,
                           email |-> loc[p].user.email,
                           payment_method |-> req[p].payment_method_id]
          IN  /\ stripe_customers' = stripe_customers \cup {customer}
              /\ pc' = [pc EXCEPT ![p] = "subscribe_stripe"]
              /\ loc' = [loc EXCEPT ![p] =
                   [user_id |-> loc[p].user_id, amount |-> loc[p].amount,
                    user |-> loc[p].user, customer |-> customer]]
              /\ UNCHANGED resp
       \/ /\ Respond(p, HTTPException(400, StripeError))
          /\ UNCHANGED <<stripe_customers, loc>>
    /\ UNCHANGED <<db, stripe_subscriptions, now, issued, registered, nreq, req>>

\* the states the processor reports for a subscription it has just made
StripeStatuses == {"active", "incomplete"}

\* SubscribeStripe with the UPDATE of the user's tier moved before the call to
\* the processor
SubscribeStripe_UpdateFirst(p) ==
    /\ pc[p] = "subscribe_stripe"
    /\ Call(p, "stripe.Subscription.create")
    /\ users' = {IF u.user_id = UUID(loc[p].user_id)
                 THEN [u EXCEPT !.tier = req[p].tier, !.subscription_status = "active"]
                 ELSE u : u \in users}
    /\ Respond(p, HTTPException(400, StripeError))
    /\ UNCHANGED <<subscriptions, stripe, now, issued, registered, nreq, req, loc>>

\* stripe.Subscription.create(...): the processor makes a subscription whose
\* period starts now, or raises
SubscribeStripe(p) ==
    /\ pc[p] = "subscribe_stripe"
    /\ Call(p, "stripe.Subscription.create")
    /\ \/ \E status \in StripeStatuses :
          LET interval == interval_of(req[p].billing_period)
              stripe_subscription ==
                  [id |-> Cardinality(stripe_subscriptions) + 1,
                   customer |-> loc[p].customer.id,
                   unit_amount |-> loc[p].amount,
                   interval |-> interval,
                   metadata |-> [user_id |-> loc[p].user_id, tier |-> req[p].tier],
                   status |-> status,
                   current_period_start |-> now,
                   current_period_end |-> now + PeriodHours(interval)]
          IN  /\ stripe_subscriptions' = stripe_subscriptions \cup {stripe_subscription}
              /\ pc' = [pc EXCEPT ![p] = "subscribe_insert"]
              /\ loc' = [loc EXCEPT ![p] =
                   [user_id |-> loc[p].user_id, amount |-> loc[p].amount,
                    user |-> loc[p].user, customer |-> loc[p].customer,
                    stripe_subscription |-> stripe_subscription]]
              /\ UNCHANGED resp
       \/ /\ Respond(p, HTTPException(400, StripeError))
          /\ UNCHANGED <<stripe_subscriptions, loc>>
    /\ UNCHANGED <<db, stripe_customers, now, issued, registered, nreq, req>>

\* NewSubscriptionRow with $5 and $6 in each other's place
NewSubscriptionRow_PeriodSwapped(subscription_id, user_id, stripe_subscription, subscription_data, at) ==
    [subscription_id |-> subscription_id,
     user_id |-> UUID(user_id),
     stripe_subscription_id |-> stripe_subscription.id,
     tier |-> subscription_data.tier,
     status |-> "active",
     billing_period |-> subscription_data.billing_period,
     current_period_start |-> fromtimestamp(stripe_subscription.current_period_end),
     current_period_end |-> fromtimestamp(stripe_subscription.current_period_start),
     created_date |-> at]

\* the row INSERT INTO subscriptions (...) VALUES ($1..$6) makes, defaults
\* filled in
NewSubscriptionRow(subscription_id, user_id, stripe_subscription, subscription_data, at) ==
    [subscription_id |-> subscription_id,
     user_id |-> UUID(user_id),
     stripe_subscription_id |-> stripe_subscription.id,
     tier |-> subscription_data.tier,
     status |-> "active",
     billing_period |-> subscription_data.billing_period,
     current_period_start |-> fromtimestamp(stripe_subscription.current_period_start),
     current_period_end |-> fromtimestamp(stripe_subscription.current_period_end),
     created_date |-> at]

\* INSERT INTO subscriptions
SubscribeInsert(p) ==
    /\ pc[p] = "subscribe_insert"
    /\ Call(p, "INSERT subscriptions")
    /\ subscriptions' = subscriptions \cup
         {NewSubscriptionRow([uuid |-> Cardinality(subscriptions) + 1],
                             loc[p].user_id, loc[p].stripe_subscription, req[p], now)}
    /\ pc' = [pc EXCEPT ![p] = "subscribe_update"]
    /\ UNCHANGED <<users, stripe, now, issued, registered, nreq, req, loc, resp>>

\* The server dies (or the INSERT raises something that is not a StripeError)
\* after stripe.Subscription.create returned and before the INSERT has written:
\* nothing in the handler undoes the processor's subscription, and no response
\* is sent.
SubscribeCrash(p) ==
    /\ pc[p] = "subscribe_insert"
    /\ pc' = [pc EXCEPT ![p] = "crashed"]
    /\ UNCHANGED <<db, stripe, now, issued, registered, nreq, req, loc, resp, calls>>

\* the UPDATE of the tier without its WHERE clause
UpdateUserTier_AllRows(rows, tier, user_id) ==
    {[u EXCEPT !.tier = tier, !.subscription_status = "active"] : u \in rows}

\* the rows of users after
\* UPDATE users SET tier = $1, subscription_status = 'active' WHERE user_id = $2
UpdateUserTier(rows, tier, user_id) ==
    {IF u.user_id = UUID(user_id)
     THEN [u EXCEPT !.tier = tier, !.subscription_status = "active"] ELSE u : u \in rows}

\* UPDATE users SET tier ..., and the response
SubscribeUpdate(p) ==
    /\ pc[p] = "subscribe_update"
    /\ Call(p, "UPDATE users.tier")
    /\ users' = UpdateUserTier(users, req[p].tier, loc[p].user_id)
    /\ Respond(p, [status |-> 200,
                   subscription_id |-> loc[p].stripe_subscription.id,
                   subscription_status |-> loc[p].stripe_subscription.status,
                   tier |-> req[p].tier,
                   amount |-> loc[p].amount,
                   current_period_end |->
                       isoformat(fromtimestamp(loc[p].stripe_subscription.current_period_end))])
    /\ UNCHANGED <<subscriptions, stripe, now, issued, registered, nreq, req, loc>>

\* ------------------------------------------------------------ GET /admin/stats
\* the research_queries table: written only by /research/search, which is not
\* part of this model
research_queries == {}

AdminEntry(credentials, utcnow) ==
    LET auth == verify_token(credentials, utcnow)
    IN  IF auth.status # 200
        THEN HTTPException(401, "Invalid authentication credentials")
        ELSE [status |-> 0, user_id |-> auth.user_id]

AdminRequest(p, credentials) ==
    LET entry == AdminEntry(credentials, now)
    IN  /\ Accept(p, [op |-> "admin_stats", credentials |-> credentials], "admin_role",
                  IF entry.status = 0 THEN [user_id |-> entry.user_id] ELSE NoLocals,
                  IF entry.status = 0 THEN Pending ELSE entry)
        /\ UNCHANGED <<db, stripe, now, issued, registered>>

\* conn.fetchval("SELECT role FROM users WHERE user_id = $1"): None for no row
SelectRole(user_id) ==
    LET found == {u \in users : u.user_id = UUID(user_id)}
    IN  IF found = {} THEN None ELSE (CHOOSE u \in found : TRUE).role

\* AdminRole refusing researchers instead of admitting admins
AdminRole_DenyResearchers(p) ==
    /\ pc[p] = "admin_role"
    /\ Call(p, "SELECT users.role")
    /\ IF SelectRole(loc[p].user_id) = "researcher"
       THEN /\ Respond(p, HTTPException(403, "Admin access required"))
            /\ UNCHANGED loc
       ELSE /\ pc' = [pc EXCEPT ![p] = "admin_total_users"]
            /\ UNCHANGED <<loc, resp>>
    /\ UNCHANGED <<db, stripe, now, issued, registered, nreq, req>>

AdminRole(p) ==
    /\ pc[p] = "admin_role"
    /\ Call(p, "SELECT users.role")
    /\ IF SelectRole(loc[p].user_id) # "admin"
       THEN /\ Respond(p, HTTPException(403, "Admin access required"))
            /\ UNCHANGED loc
       ELSE /\ pc' = [pc EXCEPT ![p] = "admin_total_users"]
            /\ UNCHANGED <<loc, resp>>
    /\ UNCHANGED <<db, stripe, now, issued, registered, nreq, req>>

\* SELECT COUNT(*) FROM users
AdminTotalUsers(p) ==
    /\ pc[p] = "admin_total_users"
    /\ Call(p, "SELECT COUNT users")
    /\ pc' = [pc EXCEPT ![p] = "admin_active_subscriptions"]
    /\ loc' = [loc EXCEPT ![p] = [total_users |-> Cardinality(users)]]
    /\ UNCHANGED <<db, stripe, now, issued, registered, nreq, req, resp>>

ActiveSubscriptions == {s \in subscriptions : s.status = "active"}

\* SELECT COUNT(*) FROM subscriptions WHERE status = 'active'
AdminActiveSubscriptions(p) ==
    /\ pc[p] = "admin_active_subscriptions"
    /\ Call(p, "SELECT COUNT active subscriptions")
    /\ pc' = [pc EXCEPT ![p] = "admin_total_queries"]
    /\ loc' = [loc EXCEPT ![p] =
         [total_users |-> loc[p].total_users,
          active_subscriptions |-> Cardinality(ActiveSubscriptions)]]
    /\ UNCHANGED <<db, stripe, now, issued, registered, nreq, req, resp>>

\* SELECT COUNT(*) FROM research_queries
AdminTotalQueries(p) ==
    /\ pc[p] = "admin_total_queries"
    /\ Call(p, "SELECT COUNT research_queries")
    /\ pc' = [pc EXCEPT ![p] = "admin_revenue"]
    /\ loc' = [loc EXCEPT ![p] =
         [total_users |-> loc[p].total_users,
          active_subscriptions |-> loc[p].active_subscriptions,
          total_queries |-> Cardinality(research_queries)]]
    /\ UNCHANGED <<db, stripe, now, issued, registered, nreq, req, resp>>

\* tier_prices.get(tier, 0), in tenths of a dollar (academic is 49.5)
tier_prices(tier) ==
    CASE tier = "academic" -> 495
      [] tier = "professional" -> 2990
      [] tier = "enterprise" -> 9990
      [] OTHER -> 0

RECURSIVE SumPrices(_)
SumPrices(rows) ==
    IF rows = {} THEN 0
    ELSE LET r == CHOOSE x \in rows : TRUE
         IN  tier_prices(r.tier) + SumPrices(rows \ {r})

\* SELECT tier, COUNT(*) FROM subscriptions WHERE status = 'active' GROUP BY
\* tier, the sum over its rows, and the response
AdminRevenue(p) ==
    /\ pc[p] = "admin_revenue"
    /\ Call(p, "SELECT active subscriptions GROUP BY tier")
    /\ Respond(p, [status |-> 200,
                   total_users |-> loc[p].total_users,
                   active_subscriptions |-> loc[p].active_subscriptions,
                   total_queries |-> loc[p].total_queries,
                   estimated_monthly_revenue |-> SumPrices(ActiveSubscriptions),
                   timestamp |-> now])
    /\ UNCHANGED <<db, stripe, now, issued, registered, nreq, req, loc>>

\* -------------------------------------------------------- POST /webhooks/stripe
\* construct_event without the check of the signature
construct_event_Unverified(request) ==
    IF ~request.payload_ok THEN [error |-> "ValueError"]
    ELSE [error |-> None, type |-> request.type, object |-> request.object]

\* what stripe.Webhook.construct_event(payload, sig_header, secret) makes of a
\* request: SignatureVerificationError, ValueError, or the event
construct_event(request) ==
    IF ~request.signature_ok THEN [error |-> "SignatureVerificationError"]
    ELSE IF ~request.payload_ok THEN [error |-> "ValueError"]
    ELSE [error |-> None, type |-> request.type, object |-> request.object]

WebhookEntry(request) ==
    LET event == construct_event(request)
    IN  IF event.error = "ValueError" THEN HTTPException(400, "Invalid payload")
        ELSE IF event.error = "SignatureVerificationError"
        THEN HTTPException(400, "Invalid signature")
        ELSE IF event.type = "customer.subscription.updated"
        THEN [status |-> 0, subscription |-> event.object]
        ELSE [status |-> 200, received |-> TRUE]

\* the subscription objects events carry: a state and a period end for a
\* subscription id
EventObjects ==
    { [id |-> i, status |-> st, current_period_end |-> MaxTime + PeriodHours("month")]
        : i \in 0..MaxRequests, st \in {"past_due"} }

\* requests the processor sends: well signed, about a subscription it holds
\* (or one of another account, id 0)
AuthenticEvents ==
    { [signature_ok |-> TRUE, payload_ok |-> TRUE, type |-> t, object |-> o]
        : t \in {"customer.subscription.updated", "invoice.paid"},
          o \in {x \in EventObjects :
                   x.id = 0 \/ \E s \in stripe_subscriptions : s.id = x.id} }

\* requests anyone can send: the signature does not verify, or the body is not
\* an event
ForgedEvents ==
    { [signature_ok |-> FALSE, payload_ok |-> ok, type |-> "customer.subscription.updated",
       object |-> o] : ok \in BOOLEAN, o \in {x \in EventObjects : x.id = 1} }
    \cup
    { [signature_ok |-> TRUE, payload_ok |-> FALSE, type |-> "customer.subscription.updated",
       object |-> o] : o \in {x \in EventObjects : x.id = 1} }

WebhookRequest(p, request) ==
    LET entry == WebhookEntry(request)
    IN  /\ Accept(p, [op |-> "webhook"] @@ request, "webhook_update",
                  IF entry.status = 0 THEN [subscription |-> entry.subscription] ELSE NoLocals,
                  IF entry.status = 0 THEN Pending ELSE entry)
        /\ UNCHANGED <<db, stripe, now, issued, registered>>

\* the UPDATE of subscriptions without its WHERE clause
UpdateSubscription_NoWhere(rows, status, current_period_end, stripe_subscription_id) ==
    {[s EXCEPT !.status = status, !.current_period_end = current_period_end] : s \in rows}

\* the rows of subscriptions after
\* UPDATE subscriptions SET status = $1, current_period_end = $2
\*   WHERE stripe_subscription_id = $3
UpdateSubscription(rows, status, current_period_end, stripe_subscription_id) ==
    {IF s.stripe_subscription_id = stripe_subscription_id
     THEN [s EXCEPT !.status = status, !.current_period_end = current_period_end]
     ELSE s : s \in rows}

WebhookUpdate(p) ==
    /\ pc[p] = "webhook_update"
    /\ Call(p, "UPDATE subscriptions")
    /\ subscriptions' = UpdateSubscription(subscriptions,
                            loc[p].subscription.status,
                            fromtimestamp(loc[p].subscription.current_period_end),
                            loc[p].subscription.id)
    /\ Respond(p, [status |-> 200, received |-> TRUE])
    /\ UNCHANGED <<users, stripe, now, issued, registered, nreq, req, loc>>

\* ------------------------------------------------------------------ the clock
Tick ==
    /\ now + TickHours <= MaxTime
    /\ now' = now + TickHours
    /\ UNCHANGED <<db, stripe, issued, registered, nreq, pc, req, loc, resp, calls>>

\* the whole API, with the registrations of two addresses
CoreForms == {f \in RegisterForms : f.email \in {AliceEdu, DaveLocal}}
CoreCredentials == {[email |-> f.email, password |-> f.password] : f \in CoreForms}

Next ==
    \/ \E p \in Procs, f \in CoreForms : RegisterRequest(p, f)
    \/ \E p \in Procs : RegisterCheck(p)
    \/ \E p \in Procs : RegisterInsert(p)
    \/ \E p \in Procs, c \in CoreCredentials : LoginRequest(p, c)
    \/ \E p \in Procs : LoginSelect(p)
    \/ \E p \in Procs : LoginUpdate(p)
    \/ \E p \in Procs, t \in issued \cup ForeignTokens, f \in SubscriptionForms :
          SubscribeRequest(p, t, f)
    \/ \E p \in Procs : SubscribeSelect(p)
    \/ \E p \in Procs : SubscribeCustomer(p)
    \/ \E p \in Procs : SubscribeStripe(p)
    \/ \E p \in Procs : SubscribeInsert(p)
    \/ \E p \in Procs : SubscribeUpdate(p)
    \/ \E p \in Procs, t \in issued \cup ForeignTokens : AdminRequest(p, t)
    \/ \E p \in Procs : AdminRole(p)
    \/ \E p \in Procs : AdminTotalUsers(p)
    \/ \E p \in Procs : AdminActiveSubscriptions(p)
    \/ \E p \in Procs : AdminTotalQueries(p)
    \/ \E p \in Procs : AdminRevenue(p)
    \/ \E p \in Procs, e \in AuthenticEvents \cup ForgedEvents : WebhookRequest(p, e)
    \/ \E p \in Procs : WebhookUpdate(p)
    \/ Tick

Spec == Init /\ [][Next]_vars

\* registration and login alone, with every address
NextRegister ==
    \/ \E p \in Procs, f \in RegisterForms : RegisterRequest(p, f)
    \/ \E p \in Procs : RegisterCheck(p)
    \/ \E p \in Procs : RegisterInsert(p)
    \/ \E p \in Procs, c \in Credentials : LoginRequest(p, c)
    \/ \E p \in Procs : LoginSelect(p)
    \/ \E p \in Procs : LoginUpdate(p)

SpecRegister == Init /\ [][NextRegister]_vars

\* one registered user's subscriptions and the processor's webhooks
BillingForms == {f \in RegisterForms : f.email = AliceEdu /\ f.role = "researcher"}

NextBilling ==
    \/ \E p \in Procs, f \in BillingForms : RegisterRequest(p, f)
    \/ \E p \in Procs : RegisterCheck(p)
    \/ \E p \in Procs : RegisterInsert(p)
    \/ \E p \in Procs, t \in issued \cup ForeignTokens, f \in SubscriptionForms :
          SubscribeRequest(p, t, f)
    \/ \E p \in Procs : SubscribeSelect(p)
    \/ \E p \in Procs : SubscribeCustomer(p)
    \/ \E p \in Procs : SubscribeStripe(p)
    \/ \E p \in Procs : SubscribeInsert(p)
    \/ \E p \in Procs : SubscribeUpdate(p)
    \/ \E p \in Procs, e \in AuthenticEvents \cup ForgedEvents : WebhookRequest(p, e)
    \/ \E p \in Procs : WebhookUpdate(p)

SpecBilling == Init /\ [][NextBilling]_vars

\* registration and the admin statistics
NextAdmin ==
    \/ \E p \in Procs, f \in CoreForms : RegisterRequest(p, f)
    \/ \E p \in Procs : RegisterCheck(p)
    \/ \E p \in Procs : RegisterInsert(p)
    \/ \E p \in Procs, t \in issued \cup ForeignTokens : AdminRequest(p, t)
    \/ \E p \in Procs : AdminRole(p)
    \/ \E p \in Procs : AdminTotalUsers(p)
    \/ \E p \in Procs : AdminActiveSubscriptions(p)
    \/ \E p \in Procs : AdminTotalQueries(p)
    \/ \E p \in Procs : AdminRevenue(p)

SpecAdmin == Init /\ [][NextAdmin]_vars

\* accounts: registration, login, subscriptions at a listed price and the
\* processor's subscription-updated events
PricedForms ==
    {f \in SubscriptionForms : f.tier \in DOMAIN pricing /\ f.billing_period = "monthly"}
UpdatedEvents == {e \in AuthenticEvents : e.type = "customer.subscription.updated"}

NextAccount ==
    \/ \E p \in Procs, f \in CoreForms : RegisterRequest(p, f)
    \/ \E p \in Procs : RegisterCheck(p)
    \/ \E p \in Procs : RegisterInsert(p)
    \/ \E p \in Procs, c \in CoreCredentials : LoginRequest(p, c)
    \/ \E p \in Procs : LoginSelect(p)
    \/ \E p \in Procs : LoginUpdate(p)
    \/ \E p \in Procs, t \in issued, f \in PricedForms : SubscribeRequest(p, t, f)
    \/ \E p \in Procs : SubscribeSelect(p)
    \/ \E p \in Procs : SubscribeCustomer(p)
    \/ \E p \in Procs : SubscribeStripe(p)
    \/ \E p \in Procs : SubscribeInsert(p)
    \/ \E p \in Procs : SubscribeUpdate(p)
    \/ \E p \in Procs, e \in UpdatedEvents : WebhookRequest(p, e)
    \/ \E p \in Procs : WebhookUpdate(p)

SpecAccount == Init /\ [][NextAccount]_vars

\* tokens: the endpoints that issue them, one that verifies them, the clock
NextToken ==
    \/ \E p \in Procs, f \in CoreForms : RegisterRequest(p, f)
    \/ \E p \in Procs : RegisterCheck(p)
    \/ \E p \in Procs : RegisterInsert(p)
    \/ \E p \in Procs, c \in CoreCredentials : LoginRequest(p, c)
    \/ \E p \in Procs : LoginSelect(p)
    \/ \E p \in Procs : LoginUpdate(p)
    \/ \E p \in Procs, t \in issued \cup ForeignTokens : AdminRequest(p, t)
    \/ \E p \in Procs : AdminRole(p)
    \/ \E p \in Procs : AdminTotalUsers(p)
    \/ \E p \in Procs : AdminActiveSubscriptions(p)
    \/ \E p \in Procs : AdminTotalQueries(p)
    \/ \E p \in Procs : AdminRevenue(p)
    \/ Tick

SpecToken == Init /\ [][NextToken]_vars

\* reconciliation: subscriptions at a listed price, a handler that dies before
\* its INSERT, and the processor's events
NextReconcile ==
    \/ \E p \in Procs, f \in BillingForms : RegisterRequest(p, f)
    \/ \E p \in Procs : RegisterCheck(p)
    \/ \E p \in Procs : RegisterInsert(p)
    \/ \E p \in Procs, t \in issued, f \in PricedForms : SubscribeRequest(p, t, f)
    \/ \E p \in Procs : SubscribeSelect(p)
    \/ \E p \in Procs : SubscribeCustomer(p)
    \/ \E p \in Procs : SubscribeStripe(p)
    \/ \E p \in Procs : SubscribeInsert(p)
    \/ \E p \in Procs : SubscribeCrash(p)
    \/ \E p \in Procs : SubscribeUpdate(p)
    \/ \E p \in Procs, e \in AuthenticEvents : WebhookRequest(p, e)
    \/ \E p \in Procs : WebhookUpdate(p)

SpecReconcile == Init /\ [][NextReconcile]_vars

\* ================================================================= properties
\* slot p leaves the handler segment `at` in this step
Leaves(p, at) == pc[p] = at /\ pc'[p] # at

EmailTaken(email) == \E u \in users : u.email = email

\* the register call of slot p got as far as its INSERT: its existence check
\* found no record with the email
PassedCheck(p) == \E i \in 1..Len(calls[p]) : calls[p][i] = "INSERT users"

\* C1 as stated: a register call refused with 400 only ran its lookup, and a
\* register call made when no record had its email (its lookup found none)
\* succeeds.
C1_Original ==
    \A p \in Procs :
        (req[p].op = "register" /\ pc[p] = "done") =>
            /\ resp[p].status = 400 => calls[p] = <<"SELECT users BY email">>
            /\ PassedCheck(p) => resp[p].status = 200

\* C1 amended: a register call whose lookup finds a record with the email
\* fails with 400 and changes no user record; a call whose lookup finds none
\* goes on to its INSERT, which succeeds and adds exactly one user record,
\* with that email, when the email is still free, and otherwise (a concurrent
\* register took it meanwhile) fails with 500 and changes no user record.
C1_RegisterConflict ==
    [][\A p \in Procs :
        /\ Leaves(p, "register_check") =>
             /\ users' = users
             /\ IF EmailTaken(req[p].email)
                THEN pc'[p] = "done" /\ resp'[p].status = 400
                ELSE pc'[p] = "register_insert"
        /\ Leaves(p, "register_insert") =>
             /\ pc'[p] = "done"
             /\ IF EmailTaken(req[p].email)
                THEN users' = users /\ resp'[p].status = 500
                ELSE /\ resp'[p].status = 200
                     /\ users \subseteq users'
                     /\ Cardinality(users') = Cardinality(users) + 1
                     /\ \A u \in users' \ users :
                          u.email = req[p].email /\ str(u.user_id) = resp'[p].user_id
      ]_vars

\* a second registration of an email was refused with 400
C1_Witness ==
    \E p \in Procs :
        /\ req[p].op = "register" /\ pc[p] = "done" /\ resp[p].status = 400
        /\ EmailTaken(req[p].email)

\* C10: no two user records have the same email, and of the register calls
\* for one email at most one ever returns a successful registration.
C10_EmailUnique ==
    /\ \A u, v \in users : u.email = v.email => u = v
    /\ \A r, t \in registered : r.email = t.email => r = t
    /\ \A p, q \in Procs :
         ( /\ p # q
           /\ req[p].op = "register" /\ req[q].op = "register"
           /\ req[p].email = req[q].email
           /\ resp[p].status = 200 ) => resp[q].status # 200

\* two register calls for one email both passed the existence check; one
\* succeeded and the other did not
C10_Witness ==
    \E p, q \in Procs :
        /\ p # q
        /\ req[p].op = "register" /\ req[q].op = "register"
        /\ req[p].email = req[q].email
        /\ PassedCheck(p) /\ PassedCheck(q)
        /\ pc[p] = "done" /\ pc[q] = "done"
        /\ resp[p].status = 200 /\ resp[q].status # 200

\* the rule C7 states: the domain of the address ends with ".edu" or with
\* ".ac.<country>"
AcademicSuffix(email) ==
    \/ EndsWith(Domain(email), <<".", "edu">>)
    \/ \E cc \in CountryCodes : EndsWith(Domain(email), <<".", "ac", ".", cc>>)

\* C7 as stated: register stores and returns is_academic = true and
\* discount_percentage = 50 exactly for the addresses whose domain ends with an
\* academic suffix, and false and 0 for every other address.
C7_AcademicBySuffix ==
    /\ \A u \in users :
         /\ u.is_academic = AcademicSuffix(u.email)
         /\ u.discount_percentage = (IF AcademicSuffix(u.email) THEN 50 ELSE 0)
    /\ \A p \in Procs :
         (req[p].op = "register" /\ pc[p] = "done" /\ resp[p].status = 200) =>
             /\ resp[p].is_academic = AcademicSuffix(req[p].email)
             /\ resp[p].discount_percentage = (IF AcademicSuffix(req[p].email) THEN 50 ELSE 0)

Tiers == {"academic", "professional", "enterprise"}
BillingPeriods == {"monthly", "annual"}
LocalWrites == {"INSERT subscriptions", "UPDATE users.tier"}
ProcessorCalls == {"stripe.Customer.create", "stripe.Subscription.create"}

\* C2 as stated: a createSubscription request (with a valid token) whose tier
\* or billing period is not in the price table fails with 400 having called
\* neither the processor nor the database.
C2_InvalidArgument ==
    \A p \in Procs :
        ( /\ req[p].op = "subscribe" /\ pc[p] = "done" /\ resp[p].status # 401
          /\ (req[p].tier \notin Tiers \/ req[p].billing_period \notin BillingPeriods) )
        => (resp[p].status = 400 /\ calls[p] = <<>>)

\* C3: when the processor rejects the customer or the subscription, the call
\* answers 400 with the processor's message and that step, like every step of
\* the call before it, writes nothing to users or subscriptions; and a call
\* writes locally only after both processor calls have been made.
C3_ProcessorFailure ==
    /\ [](\A p \in Procs : req[p].op = "subscribe" =>
            /\ (pc[p] = "done" /\ resp[p].status = 400 /\ resp[p].detail = StripeError) =>
                 \A i \in 1..Len(calls[p]) : calls[p][i] \notin LocalWrites
            /\ \A i \in 1..Len(calls[p]) : calls[p][i] \in LocalWrites =>
                 \A c \in ProcessorCalls : \E j \in 1..(i - 1) : calls[p][j] = c)
    /\ [][\A p \in Procs :
            /\ (Leaves(p, "subscribe_customer") /\ stripe_customers' = stripe_customers) =>
                 /\ pc'[p] = "done" /\ resp'[p] = HTTPException(400, StripeError)
                 /\ users' = users /\ subscriptions' = subscriptions
            /\ (Leaves(p, "subscribe_stripe") /\ stripe_subscriptions' = stripe_subscriptions) =>
                 /\ pc'[p] = "done" /\ resp'[p] = HTTPException(400, StripeError)
                 /\ users' = users /\ subscriptions' = subscriptions
            /\ (Leaves(p, "subscribe_select") \/ Leaves(p, "subscribe_customer")
                  \/ Leaves(p, "subscribe_stripe")) =>
                 (users' = users /\ subscriptions' = subscriptions)
         ]_vars

\* the processor rejected the subscription of a registered user, after it had
\* made the customer
C3_Witness ==
    \E p \in Procs :
        /\ req[p].op = "subscribe" /\ pc[p] = "done"
        /\ resp[p] = HTTPException(400, StripeError)
        /\ calls[p] = <<"SELECT users BY user_id", "stripe.Customer.create",
                        "stripe.Subscription.create">>
        /\ \E u \in users : str(u.user_id) = loc[p].user_id /\ u.tier = "academic"
        /\ subscriptions = {}

\* the rows of `rows` that carry what the processor reported for its
\* subscription `id`, for the user and the request of slot p
RowsOf(rows, p, id) ==
    {r \in rows :
        /\ r.stripe_subscription_id = id
        /\ r.user_id = UUID(loc[p].user_id)
        /\ r.tier = req[p].tier
        /\ r.billing_period = req[p].billing_period
        /\ \E s \in stripe_subscriptions :
             /\ s.id = id
             /\ r.current_period_start = fromtimestamp(s.current_period_start)}
PeriodEndOf(r) ==
    \E s \in stripe_subscriptions :
        /\ s.id = r.stripe_subscription_id
        /\ r.current_period_end = fromtimestamp(s.current_period_end)

\* C4: a createSubscription call that succeeds inserts exactly one Subscription
\* record, for its user, with the processor's subscription id, the requested
\* tier and billing period and the period start and end the processor
\* reported; when it completes that record is still the only one with that
\* external id and the user's tier is the requested tier and the user's
\* subscription_status is 'active'.
C4_SubscriptionCreated ==
    [][\A p \in Procs :
        /\ Leaves(p, "subscribe_insert") =>
             /\ subscriptions \subseteq subscriptions'
             /\ Cardinality(subscriptions' \ subscriptions) = 1
             /\ \A r \in subscriptions' \ subscriptions :
                  /\ r \in RowsOf(subscriptions', p, loc[p].stripe_subscription.id)
                  /\ PeriodEndOf(r)
             /\ \A r \in subscriptions :
                  r.stripe_subscription_id # loc[p].stripe_subscription.id
        /\ Leaves(p, "subscribe_update") =>
             /\ pc'[p] = "done" /\ resp'[p].status = 200
             /\ resp'[p].subscription_id = loc[p].stripe_subscription.id
             /\ Cardinality({r \in subscriptions' :
                    r.stripe_subscription_id = loc[p].stripe_subscription.id}) = 1
             /\ Cardinality(RowsOf(subscriptions', p, loc[p].stripe_subscription.id)) = 1
             /\ \E u \in users' : u.user_id = UUID(loc[p].user_id)
             /\ \A u \in users' : u.user_id = UUID(loc[p].user_id) =>
                  (u.tier = req[p].tier /\ u.subscription_status = "active")
      ]_vars

\* a createSubscription call for the professional tier has completed
C4_Witness ==
    \E p \in Procs :
        /\ req[p].op = "subscribe" /\ pc[p] = "done" /\ resp[p].status = 200
        /\ req[p].tier = "professional"
        /\ \E u \in users : str(u.user_id) = loc[p].user_id /\ u.tier = "professional"
        /\ \E r \in subscriptions : r.stripe_subscription_id = resp[p].subscription_id

InvalidEvent(r) == r.op = "webhook" /\ (~r.signature_ok \/ ~r.payload_ok)

\* C5: a webhook request whose signature does not verify or whose payload
\* does not parse is answered 400 at once: its handler never reaches the
\* UPDATE, and the step that takes the request changes no Subscription record.
C5_WebhookFailClosed ==
    /\ [](\A p \in Procs : InvalidEvent(req[p]) =>
            (pc[p] = "done" /\ resp[p].status = 400 /\ calls[p] = <<>>))
    /\ [][\A p \in Procs : (InvalidEvent(req'[p]) /\ (req'[p] # req[p] \/ pc'[p] # pc[p])) =>
            subscriptions' = subscriptions]_vars

\* a forged subscription-updated event about an existing Subscription record
\* was rejected
C5_Witness ==
    \E p \in Procs :
        /\ InvalidEvent(req[p]) /\ ~req[p].signature_ok /\ pc[p] = "done"
        /\ \E r \in subscriptions :
             /\ r.stripe_subscription_id = req[p].object.id
             /\ r.status # req[p].object.status

StatsQueries ==
    {"SELECT COUNT users", "SELECT COUNT active subscriptions",
     "SELECT COUNT research_queries", "SELECT active subscriptions GROUP BY tier"}

\* the role of the user a bearer token names: None when no record has that id
RoleOf(credentials) ==
    IF \E u \in users : str(u.user_id) = credentials.sub
    THEN (CHOOSE u \in users : str(u.user_id) = credentials.sub).role
    ELSE None

\* C8: admin-stats called with a valid token of a user whose role is not
\* 'admin', or of a user id with no record, answers 403 after the role lookup
\* alone: none of the statistics queries runs for it, and no step of the
\* handler changes users or subscriptions.
C8_AdminForbidden ==
    /\ [](\A p \in Procs : req[p].op = "admin_stats" =>
            /\ (pc[p] = "done" /\ resp[p].status = 403) => calls[p] = <<"SELECT users.role">>
            /\ (\E i \in 1..Len(calls[p]) : calls[p][i] \in StatsQueries) =>
                 RoleOf(req[p].credentials) = "admin"
            /\ (pc[p] = "done" /\ resp[p].status = 200) =>
                 RoleOf(req[p].credentials) = "admin")
    /\ [][\A p \in Procs :
            /\ Leaves(p, "admin_role") =>
                 IF RoleOf(req[p].credentials) # "admin"
                 THEN pc'[p] = "done" /\ resp'[p].status = 403
                 ELSE pc'[p] = "admin_total_users"
            /\ (req[p].op = "admin_stats" /\ pc'[p] # pc[p] /\ ~Free(p)) =>
                 (users' = users /\ subscriptions' = subscriptions)
         ]_vars

\* two admin-stats calls were refused: one with the token of a registered
\* researcher, one with a valid token whose user id has no record
C8_Witness ==
    \E p, q \in Procs :
        /\ req[p].op = "admin_stats" /\ pc[p] = "done" /\ resp[p].status = 403
        /\ req[q].op = "admin_stats" /\ pc[q] = "done" /\ resp[q].status = 403
        /\ RoleOf(req[p].credentials) = "researcher"
        /\ req[q].credentials.sub = str(GhostUuid)

\* slot p takes a new request in this step
Accepted(p) == nreq' = nreq + 1 /\ Free(p) /\ \A q \in Procs : q < p => ~Free(q)

\* a token as another signing secret would have made it
Resigned(t) == [t EXCEPT !.key = "not-the-secret"]
\* a token whose payload lacks the subject
Unsubjected(t) == [t EXCEPT !.sub = None]

\* C6: a token the system issued carries its subject and the expiry now + 24h;
\* in every later state before that expiry, whatever operations ran, it
\* verifies to exactly its subject, and an authenticated endpoint given it goes
\* on as that subject; once the expiry has passed it fails with 401, and so do
\* at any time the same token signed with another secret and a payload with
\* no subject.
C6_TokenLifetime ==
    /\ [](\A t \in issued :
            /\ t.sub # None
            /\ now < t.exp => verify_token(t, now) = [status |-> 200, user_id |-> t.sub]
            /\ now > t.exp => verify_token(t, now).status = 401
            /\ verify_token(Resigned(t), now).status = 401
            /\ verify_token(Unsubjected(t), now).status = 401)
    /\ [][/\ \A t \in issued' \ issued : t.exp = now + TOKEN_TTL_HOURS
          /\ issued \subseteq issued'
          /\ \A p \in Procs :
               (Accepted(p) /\ req'[p].op \in {"subscribe", "admin_stats"}) =>
                   LET t == req'[p].credentials
                   IN  /\ (t \in issued /\ now < t.exp) =>
                            (resp'[p].status # 401 /\
                             (resp'[p].status = 0 => loc'[p].user_id = t.sub))
                       /\ (now > t.exp \/ t.key # JWT_SECRET \/ t.sub = None) =>
                            resp'[p].status = 401
         ]_vars

\* a token issued earlier is presented after the clock moved, still before its
\* expiry, and is accepted; another issued token has expired
C6_Witness ==
    /\ \E p \in Procs :
         /\ req[p].op \in {"subscribe", "admin_stats"}
         /\ req[p].credentials \in issued
         /\ req[p].credentials.exp < now + TOKEN_TTL_HOURS
         /\ now < req[p].credentials.exp
         /\ resp[p].status # 401
    /\ \E t \in issued : now > t.exp

HasSubscription(u) == \E r \in subscriptions : r.user_id = u.user_id

\* C9: once register(email, password) has succeeded, a login with that email
\* and password finds the registered user, whatever ran in between, and
\* answers 200 with that user's id and the tier and subscription_status
\* stored for the user when it is looked up, which are 'academic' and 'active'
\* for a user with no subscription; a login with a pair that no successful
\* registration made answers 401 and changes no record.
C9_LoginAfterRegister ==
    /\ [](\A u \in users : ~HasSubscription(u) =>
            (u.tier = "academic" /\ u.subscription_status = "active"))
    /\ [][\A p \in Procs :
            /\ Leaves(p, "login_select") =>
                 IF \E r \in registered :
                        r.email = req[p].email /\ r.password = req[p].password
                 THEN /\ pc'[p] = "login_update"
                      /\ \E r \in registered, u \in users :
                           /\ r.email = req[p].email /\ r.password = req[p].password
                           /\ str(u.user_id) = r.user_id
                           /\ loc'[p].user.user_id = u.user_id
                           /\ loc'[p].user.tier = u.tier
                           /\ loc'[p].user.subscription_status = u.subscription_status
                 ELSE /\ pc'[p] = "done" /\ resp'[p].status = 401
                      /\ users' = users /\ subscriptions' = subscriptions
            /\ Leaves(p, "login_update") =>
                 /\ pc'[p] = "done" /\ resp'[p].status = 200
                 /\ resp'[p].user_id = str(loc[p].user.user_id)
                 /\ resp'[p].tier = loc[p].user.tier
                 /\ resp'[p].subscription_status = loc[p].user.subscription_status
                 /\ resp'[p].access_token.sub = resp'[p].user_id
                 /\ subscriptions' = subscriptions
                 /\ users' = {IF u.user_id = loc[p].user.user_id
                              THEN [u EXCEPT !.last_active = now] ELSE u : u \in users}
         ]_vars

\* a user registered, subscribed to the professional tier and then logged in:
\* the login returned that tier
C9_Witness ==
    \E p \in Procs :
        /\ req[p].op = "login" /\ pc[p] = "done" /\ resp[p].status = 200
        /\ resp[p].tier = "professional"
        /\ \E r \in registered :
             /\ r.email = req[p].email /\ r.password = req[p].password
             /\ r.user_id = resp[p].user_id


\* the local Subscription records with the external subscription id `id`
Matching(id) == {s \in subscriptions : s.stripe_subscription_id = id}

\* row t is row s with nothing but status and period end rewritten, to the
\* values of the event's subscription object
Reconciled(s, t, object) ==
    /\ t.subscription_id = s.subscription_id
    /\ t.user_id = s.user_id
    /\ t.stripe_subscription_id = s.stripe_subscription_id
    /\ t.tier = s.tier
    /\ t.billing_period = s.billing_period
    /\ t.current_period_start = s.current_period_start
    /\ t.created_date = s.created_date
    /\ t.status = object.status
    /\ t.current_period_end = fromtimestamp(object.current_period_end)

\* slot p answers, in this step, the authentic event it holds after the step
Handles(p) ==
    /\ req'[p].op = "webhook" /\ req'[p].signature_ok /\ req'[p].payload_ok
    /\ pc'[p] = "done"
    /\ Accepted(p) \/ Leaves(p, "webhook_update")

\* C11: the step in which an authentic event is handled acknowledges it and
\* leaves users and the processor's data as they were.  For a
\* subscription-updated event it rewrites status and period end of every local
\* Subscription record with the event's external id to the event's values,
\* keeps the other fields of those records and every other record, and neither
\* adds nor removes a record; with no matching record, or for an event of
\* another type, the subscriptions table is unchanged as well.
C11_WebhookFrame ==
    [][\A p \in Procs :
        Handles(p) =>
            LET event == req'[p]
                matched == IF event.type = "customer.subscription.updated"
                           THEN Matching(event.object.id) ELSE {}
            IN  /\ resp'[p] = [status |-> 200, received |-> TRUE]
                /\ users' = users
                /\ stripe' = stripe
                /\ Cardinality(subscriptions') = Cardinality(subscriptions)
                /\ \A s \in subscriptions \ matched : s \in subscriptions'
                /\ \A s \in matched :
                      \E t \in subscriptions' : Reconciled(s, t, event.object)
                /\ matched = {} => subscriptions' = subscriptions]_vars

\* a subscription-updated event has been handled for a subscription made by
\* createSubscription, and the record with the event's id carries its values
C11_Witness ==
    \E p \in Procs :
        /\ pc[p] = "done" /\ req[p].op = "webhook" /\ resp[p].status = 200
        /\ req[p].type = "customer.subscription.updated"
        /\ \E s \in Matching(req[p].object.id) :
              /\ s.status = req[p].object.status
              /\ s.current_period_end = fromtimestamp(req[p].object.current_period_end)
              /\ s.tier \in Tiers
        /\ \E u \in users : u.subscription_status = "active"


\* the reconciliation gap: the processor holds a subscription createSubscription
\* made, no local Subscription record carries its id, and no handler stands
\* before the INSERT of that record any more (the handler that made it died)
Gap(id) ==
    /\ \E x \in stripe_subscriptions : x.id = id
    /\ Matching(id) = {}
    /\ \A q \in Procs :
          pc[q] = "subscribe_insert" => loc[q].stripe_subscription.id # id

\* C12: when an authentic event about an external subscription in the
\* reconciliation gap is handled, a local Subscription record with that
\* external id exists afterwards.
C12_GapClosed ==
    [][\A p \in Procs :
        (Handles(p) /\ Gap(req'[p].object.id)) =>
            \E s \in subscriptions' :
                s.stripe_subscription_id = req'[p].object.id]_vars

====
